---- MODULE Spec2Model ----
(***************************************************************************)
(* Model of the codeAI request handlers:                                   *)
(*   - src/app/api/analyze/route.ts            (POST /api/analyze)         *)
(*   - src/app/api/github/list-files/route.ts  (POST /api/github/list-files) *)
(*                                                                         *)
(* Strings.  A JavaScript string is a sequence of UTF-16 code units.  File *)
(* contents are kept run-length encoded: a sequence of runs <<u, n>> (unit *)
(* u repeated n > 0 times) in which adjacent runs carry different units,   *)
(* so that two contents are equal as strings iff they are equal as values, *)
(* and a 300,000-unit content is a one-run value.  Paths and URL segments  *)
(* of the list-files handler are plain sequences of one-character strings. *)
(* Error messages are sequences of tokens (words and interpolated values). *)
(***************************************************************************)
EXTENDS Integers, Sequences, FiniteSets, TLC

Min(a, b) == IF a <= b THEN a ELSE b

Max(a, b) == IF a >= b THEN a ELSE b

(***************************************************************************)
(* Run-length encoded contents                                             *)
(***************************************************************************)
R(u, n) == <<u, n>>

\* String concatenation (the + of two strings), keeping runs maximal.
Concat(a, b) ==
  IF a = <<>> THEN b
  ELSE IF b = <<>> THEN a
  ELSE IF a[Len(a)][1] = b[1][1]
    THEN SubSeq(a, 1, Len(a) - 1)
           \o <<R(b[1][1], a[Len(a)][2] + b[1][2])>>
           \o SubSeq(b, 2, Len(b))
    ELSE a \o b

\* The content of a plain sequence of code units.
RECURSIVE FromUnits(_)
FromUnits(us) ==
  IF us = <<>> THEN <<>>
  ELSE Concat(<<R(us[1], 1)>>, FromUnits(Tail(us)))

\* The plain sequence of code units of a content (small contents only).
RECURSIVE Units(_)
Units(c) ==
  IF c = <<>> THEN <<>>
  ELSE IF c[1][2] = 1 THEN <<c[1][1]>> \o Units(Tail(c))
  ELSE <<c[1][1]>> \o Units(<<R(c[1][1], c[1][2] - 1)>> \o Tail(c))

\* String.prototype.length: the number of UTF-16 code units.
RECURSIVE CLen(_)
CLen(c) == IF c = <<>> THEN 0 ELSE c[1][2] + CLen(Tail(c))

\* The first k code units of c (all of c when k >= its length).
RECURSIVE Take(_, _)
Take(c, k) ==
  IF k <= 0 \/ c = <<>> THEN <<>>
  ELSE IF c[1][2] >= k THEN <<R(c[1][1], k)>>
  ELSE <<c[1]>> \o Take(Tail(c), k - c[1][2])

\* c without its first k code units.
RECURSIVE Drop(_, _)
Drop(c, k) ==
  IF k <= 0 \/ c = <<>> THEN c
  ELSE IF c[1][2] > k THEN <<R(c[1][1], c[1][2] - k)>> \o Tail(c)
  ELSE Drop(Tail(c), k - c[1][2])

\* String.prototype.slice(start, end): a negative index counts from the
\* end, both indices are clamped to [0, length]; slice(start) is
\* slice(start, length).  The integer 0 stands for both +0 and -0, which
\* slice treats alike.
RelIndex(i, len) == IF i < 0 THEN Max(len + i, 0) ELSE Min(i, len)

slice(c, start, end) ==
  LET len  == CLen(c)
      from == RelIndex(start, len)
      to   == RelIndex(end, len)
  IN  Take(Drop(c, from), Max(to - from, 0))

(***************************************************************************)
(* UTF-8 encoding (TextEncoder)                                            *)
(***************************************************************************)
HighSurrogate == "UD83D"

LowSurrogate == "UDE00"

\* Bytes TextEncoder emits for one code unit standing alone: 1 for ASCII,
\* 2 for U+0080..U+07FF, 3 for the rest of the BMP; a lone surrogate is
\* encoded as U+FFFD (3 bytes).
UnitBytes(u) ==
  CASE u = "U00E9" -> 2
    [] u = "U20AC" -> 3
    [] u = HighSurrogate -> 3
    [] u = LowSurrogate -> 3
    [] OTHER -> 1

\* A high surrogate directly followed by a low surrogate is one code point
\* of 4 bytes instead of two lone surrogates of 3 bytes each.  With maximal
\* runs, each boundary between a high run and a low run holds one pair.
RECURSIVE PairCount(_)
PairCount(c) ==
  IF Len(c) < 2 THEN 0
  ELSE (IF c[1][1] = HighSurrogate /\ c[2][1] = LowSurrogate THEN 1 ELSE 0)
         + PairCount(Tail(c))

RECURSIVE LoneBytes(_)
LoneBytes(c) ==
  IF c = <<>> THEN 0 ELSE c[1][2] * UnitBytes(c[1][1]) + LoneBytes(Tail(c))

\* bytes(str): new TextEncoder().encode(str).length
bytes(str) == LoneBytes(str) - 2 * PairCount(str)

(***************************************************************************)
(* Limits of the analyze handler                                           *)
(***************************************************************************)
MAX_TOTAL_BYTES == 200000

MAX_FILE_BYTES == 40000

MAX_FILES == 50

(***************************************************************************)
(* maybeTruncateContent                                                    *)
(***************************************************************************)
\* "\n/* ... truncated middle due to size limits ... */\n"  (51 code units)
marker ==
  <<R("\n", 1), R("/", 1), R("*", 1), R(" ", 1), R(".", 3), R(" ", 1),
    R("t", 1), R("r", 1), R("u", 1), R("n", 1), R("c", 1), R("a", 1),
    R("t", 1), R("e", 1), R("d", 1), R(" ", 1), R("m", 1), R("i", 1),
    R("d", 2), R("l", 1), R("e", 1), R(" ", 1), R("d", 1), R("u", 1),
    R("e", 1), R(" ", 1), R("t", 1), R("o", 1), R(" ", 1), R("s", 1),
    R("i", 1), R("z", 1), R("e", 1), R(" ", 1), R("l", 1), R("i", 1),
    R("m", 1), R("i", 1), R("t", 1), R("s", 1), R(" ", 1), R(".", 3),
    R(" ", 1), R("*", 1), R("/", 1), R("\n", 1)>>

NoHalving(limit) == limit

\* Math.floor(limit / 2) for an integer limit.
Floor2(limit) == limit \div 2

maybeTruncateContentStrict(content, limit) ==
  IF bytes(content) < limit THEN [text |-> content, truncated |-> FALSE]
  ELSE
    LET half     == Max(0, Floor2(limit))
        head     == slice(content, 0, half)
        tail     == slice(content, -half, CLen(content))
        combined == Concat(Concat(head, marker), tail)
    IN  [text |-> combined, truncated |-> TRUE]

maybeTruncateContent(content, limit) ==
  IF bytes(content) <= limit THEN [text |-> content, truncated |-> FALSE]
  ELSE
    LET half     == Max(0, Floor2(limit))
        head     == slice(content, 0, half)
        tail     == slice(content, -half, CLen(content))
        combined == Concat(Concat(head, marker), tail)
    IN  [text |-> combined, truncated |-> TRUE]

(***************************************************************************)
(* The global size cap of the analyze handler (route.ts lines 106-118)     *)
(***************************************************************************)
\* One run of the loop "for (const f of files)" from position i on, with the
\* running total and the bundle built so far.  hitCap records the break.
RECURSIVE CapLoop(_, _, _, _, _)
CapLoop(fs, cap, i, tot, acc) ==
  IF i > Len(fs) THEN [bounded |-> acc, total |-> tot, hitCap |-> FALSE]
  ELSE
    LET sz == bytes(fs[i].content)
    IN  IF tot + sz > cap
          THEN [bounded |-> acc, total |-> tot, hitCap |-> TRUE]
          ELSE CapLoop(fs, cap, i + 1, tot + sz, Append(acc, fs[i]))

\* The loop with "continue" in place of "break": later files that fit are
\* still added.
RECURSIVE CapLoopSkip(_, _, _, _, _)
CapLoopSkip(fs, cap, i, tot, acc) ==
  IF i > Len(fs) THEN [bounded |-> acc, total |-> tot, hitCap |-> FALSE]
  ELSE
    LET sz == bytes(fs[i].content)
    IN  IF tot + sz > cap
          THEN [CapLoopSkip(fs, cap, i + 1, tot, acc) EXCEPT !.hitCap = TRUE]
          ELSE CapLoopSkip(fs, cap, i + 1, tot + sz, Append(acc, fs[i]))

EnforceCapSkipping(fs, cap) == CapLoopSkip(fs, cap, 1, 0, <<>>)

EnforceCap(fs, cap) == CapLoop(fs, cap, 1, 0, <<>>)

(***************************************************************************)
(* POST /api/github/list-files: strings                                    *)
(***************************************************************************)
startsWith(p, prefix) ==
  Len(p) >= Len(prefix) /\ SubSeq(p, 1, Len(prefix)) = prefix

endsWith(p, suffix) ==
  Len(p) >= Len(suffix) /\ SubSeq(p, Len(p) - Len(suffix) + 1, Len(p)) = suffix

\* p.lastIndexOf("."): the 0-based index of the last ".", or -1
lastIndexOfDot(p) ==
  LET dots == {i \in 1..Len(p) : p[i] = "."}
  IN  IF dots = {} THEN -1
      ELSE (CHOOSE i \in dots : \A j \in dots : j <= i) - 1

LowerTable ==
  [c \in {"A", "B", "C", "D", "E", "F", "G", "H", "I", "J", "K", "L", "M", "N", "O", "P", "Q", "R", "S", "T", "U", "V", "W", "X", "Y", "Z"} |->
     CASE c = "A" -> "a"
       [] c = "B" -> "b"
       [] c = "C" -> "c"
       [] c = "D" -> "d"
       [] c = "E" -> "e"
       [] c = "F" -> "f"
       [] c = "G" -> "g"
       [] c = "H" -> "h"
       [] c = "I" -> "i"
       [] c = "J" -> "j"
       [] c = "K" -> "k"
       [] c = "L" -> "l"
       [] c = "M" -> "m"
       [] c = "N" -> "n"
       [] c = "O" -> "o"
       [] c = "P" -> "p"
       [] c = "Q" -> "q"
       [] c = "R" -> "r"
       [] c = "S" -> "s"
       [] c = "T" -> "t"
       [] c = "U" -> "u"
       [] c = "V" -> "v"
       [] c = "W" -> "w"
       [] c = "X" -> "x"
       [] c = "Y" -> "y"
       [] c = "Z" -> "z"]

\* String.prototype.toLowerCase, on the letters the model uses
toLowerCase(p) ==
  [i \in 1..Len(p) |-> IF p[i] \in DOMAIN LowerTable THEN LowerTable[p[i]] ELSE p[i]]

\* Array.prototype.join
RECURSIVE join(_, _)
join(parts, sep) ==
  IF parts = <<>> THEN <<>>
  ELSE IF Len(parts) = 1 THEN parts[1]
  ELSE parts[1] \o sep \o join(Tail(parts), sep)

\* An optional value: undefined, or a string.
None == [present |-> FALSE, value |-> <<>>]

Some(v) == [present |-> TRUE, value |-> v]

\* parts[i] of a JavaScript array (0-based): undefined past the end
At(parts, i) == IF i + 1 <= Len(parts) THEN Some(parts[i + 1]) ELSE None

\* parts.slice(i)
sliceFrom(parts, i) == SubSeq(parts, Min(i, Len(parts)) + 1, Len(parts))

(***************************************************************************)
(* parseGitHubUrl                                                          *)
(***************************************************************************)
\* A repoUrl string, as new URL(url) and u.pathname.split("/") see it:
\* given is its truthiness, wellFormed whether new URL accepts it, pieces
\* what split("/") returns (empty strings included).
Url(given, wellFormed, hostname, pieces) ==
  [given |-> given, wellFormed |-> wellFormed, hostname |-> hostname,
   pieces |-> pieces]

Threw(msg) ==
  [threw |-> TRUE, message |-> msg, owner |-> <<>>, repo |-> <<>>,
   ref |-> None, path |-> None]

Parsed(owner, repo, ref, path) ==
  [threw |-> FALSE, message |-> <<>>, owner |-> owner, repo |-> repo,
   ref |-> ref, path |-> path]

S_tree == <<"t", "r", "e", "e">>

S_blob == <<"b", "l", "o", "b">>

\* .filter(Boolean) on an array of strings: drops the empty ones
filterBoolean(pieces) == SelectSeq(pieces, LAMBDA x : x # <<>>)

parseGitHubUrlPathFrom3(url) ==
  IF ~url.wellFormed THEN Threw(<<"Invalid URL">>)
  ELSE IF url.hostname # "github.com"
    THEN Threw(<<"Only", "github.com", "links", "are", "supported">>)
  ELSE
    LET parts == filterBoolean(url.pieces)
    IN  IF Len(parts) < 2 THEN Threw(<<"Invalid repository URL">>)
        ELSE IF At(parts, 2) \in {Some(S_tree), Some(S_blob)}
          THEN Parsed(parts[1], parts[2], At(parts, 3),
                      Some(join(sliceFrom(parts, 3), <<"/">>)))
          ELSE Parsed(parts[1], parts[2], None, None)

parseGitHubUrlAnyHost(url) ==
  IF ~url.wellFormed THEN Threw(<<"Invalid URL">>)
  ELSE
    LET parts == filterBoolean(url.pieces)
    IN  IF Len(parts) < 2 THEN Threw(<<"Invalid repository URL">>)
        ELSE IF At(parts, 2) \in {Some(S_tree), Some(S_blob)}
          THEN Parsed(parts[1], parts[2], At(parts, 3),
                      Some(join(sliceFrom(parts, 4), <<"/">>)))
          ELSE Parsed(parts[1], parts[2], None, None)

\* The catch block rethrows with e.message, which is never empty here.
parseGitHubUrl(url) ==
  IF ~url.wellFormed THEN Threw(<<"Invalid URL">>)
  ELSE IF url.hostname # "github.com"
    THEN Threw(<<"Only", "github.com", "links", "are", "supported">>)
  ELSE
    LET parts == filterBoolean(url.pieces)
    IN  IF Len(parts) < 2 THEN Threw(<<"Invalid repository URL">>)
        ELSE IF At(parts, 2) \in {Some(S_tree), Some(S_blob)}
          THEN Parsed(parts[1], parts[2], At(parts, 3),
                      Some(join(sliceFrom(parts, 4), <<"/">>)))
          ELSE Parsed(parts[1], parts[2], None, None)

(***************************************************************************)
(* The filters of the list-files handler (route.ts lines 64-97)            *)
(***************************************************************************)
skipExt ==
  { <<".", "p", "n", "g">>,
    <<".", "j", "p", "g">>,
    <<".", "j", "p", "e", "g">>,
    <<".", "g", "i", "f">>,
    <<".", "w", "e", "b", "p">>,
    <<".", "s", "v", "g">>,
    <<".", "i", "c", "o">>,
    <<".", "p", "d", "f">>,
    <<".", "z", "i", "p">>,
    <<".", "g", "z">>,
    <<".", "m", "p", "4">>,
    <<".", "m", "p", "3">>,
    <<".", "m", "o", "v">>,
    <<".", "o", "g", "g">>,
    <<".", "o", "g", "v">>,
    <<".", "w", "e", "b", "m">>,
    <<".", "g", "l", "b">>,
    <<".", "g", "l", "t", "f">> }

blobPaths(entries) ==
  LET blobs == SelectSeq(entries, LAMBDA t : t.type = "blob")
  IN  [i \in 1..Len(blobs) |-> blobs[i].path]

underRoot(fs, rootPath) ==
  IF rootPath.present /\ Len(rootPath.value) > 0
    THEN LET prefix == IF endsWith(rootPath.value, <<"/">>)
                         THEN rootPath.value
                         ELSE rootPath.value \o <<"/">>
         IN  SelectSeq(fs, LAMBDA p : startsWith(p, prefix))
    ELSE fs

keptByExtCaseSensitive(p) ==
  LET dot == lastIndexOfDot(p)
  IN  IF dot = -1 THEN TRUE
      ELSE SubSeq(p, dot + 1, Len(p)) \notin skipExt

keptByExt(p) ==
  LET dot == lastIndexOfDot(p)
  IN  IF dot = -1 THEN TRUE
      ELSE toLowerCase(SubSeq(p, dot + 1, Len(p))) \notin skipExt

withoutSkippedExt(fs) == SelectSeq(fs, keptByExt)

listedFiles(entries, rootPath) ==
  withoutSkippedExt(underRoot(blobPaths(entries), rootPath))

(***************************************************************************)
(* Bounds of the model                                                     *)
(***************************************************************************)
\* Longest plain content handed to maybeTruncateContent on its own.
MaxLen == 3

\* Largest limit handed to maybeTruncateContent on its own.
MaxLimit == 5

\* Longest file list and largest cap handed to the size-cap loop on its own.
MaxCapFiles == 3

MaxCap == 4

\* Most pieces of a URL path handed to parseGitHubUrl on its own.
MaxPieces == 6

\* Longest tree listing the remote repository answers with.
MaxTree == 3

\* Longest freely chosen head of a request's file list; the rest of the
\* list is a run of one filler file.
MaxHead == 2

\* The filler run has 0 or MAX_FILES - 1 .. MAX_FILES + MaxOver entries.
MaxOver == 1

SeqsUpTo(S, n) == UNION {[1..k -> S] : k \in 0..n}

Repeat(x, n) == [k \in 1..n |-> x]

(***************************************************************************)
(* State                                                                   *)
(***************************************************************************)
VARIABLES
  fn, arg, out, fnPc,          \* one call of a helper on its own
  body, remote, pc,            \* analyze: request, remote repository, position
  files, truncatedAny,         \* analyze: locals of POST
  total, bounded, idx,
  netLog, inflight,            \* analyze: requests sent out, and those unanswered
  modelCalls, modelAnswer,     \* analyze: calls of the model, and its answer
  response,                    \* analyze: what the handler returned
  lreq, lpc,                   \* list-files: request, position
  parsed, ref, tree,           \* list-files: locals of POST
  lnet,                        \* list-files: requests sent out
  lresponse                    \* list-files: what the handler returned

fnVars == <<fn, arg, out, fnPc>>

analyzeVars ==
  <<body, remote, pc, files, truncatedAny, total, bounded, idx, netLog,
    inflight, modelCalls, modelAnswer, response>>

listVars == <<lreq, lpc, parsed, ref, tree, lnet, lresponse>>

vars == <<fnVars, analyzeVars, listVars>>

(***************************************************************************)
(* A helper called on its own                                              *)
(***************************************************************************)
TestUnits == {"x", "y", "U20AC", HighSurrogate, LowSurrogate}

TestContents == {FromUnits(us) : us \in SeqsUpTo(TestUnits, MaxLen)}

TestLimits == -1..MaxLimit

CapContents == {<<>>, <<R("x", 1)>>, <<R("x", 2)>>, <<R("U20AC", 1)>>}

CapFiles == [path : {"a.ts", "b.ts"}, content : CapContents]

\* URL path segments the parser is tried on; <<>> is an empty piece, as a
\* doubled or trailing "/" leaves one.
TestPieces == {<<"o">>, S_tree, S_blob, <<"a">>, <<>>}

TestUrls ==
  {Url(TRUE, FALSE, "", <<>>)}
    \cup {Url(TRUE, TRUE, h, <<<<>>>> \o ps) :
            h \in {"github.com", "gitlab.com"},
            ps \in SeqsUpTo(TestPieces, MaxPieces)}

NoTruncation == [text |-> <<>>, truncated |-> FALSE]

NoCap == [bounded |-> <<>>, total |-> 0, hitCap |-> FALSE]

FnIdle ==
  /\ fn = "none"
  /\ arg = <<>>
  /\ out = <<>>
  /\ fnPc = "idle"

InitFn ==
  /\ fnPc = "call"
  /\ \/ /\ fn = "maybeTruncateContent"
        /\ arg \in [content : TestContents, limit : TestLimits]
        /\ out = NoTruncation
     \/ /\ fn = "EnforceCap"
        /\ arg \in [files : SeqsUpTo(CapFiles, MaxCapFiles), cap : 0..MaxCap]
        /\ out = NoCap
     \/ /\ fn = "parseGitHubUrl"
        /\ arg \in TestUrls
        /\ out = Threw(<<>>)

CallTruncate ==
  /\ fnPc = "call"
  /\ fn = "maybeTruncateContent"
  /\ out' = maybeTruncateContent(arg.content, arg.limit)
  /\ fnPc' = "ret"
  /\ UNCHANGED <<fn, arg, analyzeVars, listVars>>

CallCap ==
  /\ fnPc = "call"
  /\ fn = "EnforceCap"
  /\ out' = EnforceCap(arg.files, arg.cap)
  /\ fnPc' = "ret"
  /\ UNCHANGED <<fn, arg, analyzeVars, listVars>>

CallParse ==
  /\ fnPc = "call"
  /\ fn = "parseGitHubUrl"
  /\ out' = parseGitHubUrl(arg)
  /\ fnPc' = "ret"
  /\ UNCHANGED <<fn, arg, analyzeVars, listVars>>

(***************************************************************************)
(* POST /api/analyze                                                       *)
(***************************************************************************)
Small == <<R("x", 10)>>

Big == <<R("y", 300000)>>

AtLimit == <<R("y", MAX_FILE_BYTES)>>

OverLimit == <<R("y", MAX_FILE_BYTES + 1)>>

Euros == <<R("U20AC", MAX_FILE_BYTES \div 2)>>

Empty == <<>>

\* What the remote repository holds for a path: how the contents endpoint
\* answers (status; encoding of the JSON it returns), the file's text, and
\* whether the raw endpoint answers with success.
RemoteFile(status, encoding, text, rawOk) ==
  [status |-> status, encoding |-> encoding, text |-> text, rawOk |-> rawOk]

RemoteFiles ==
  { RemoteFile(200, "base64", Small, TRUE),
    RemoteFile(200, "base64", Big, TRUE),
    RemoteFile(200, "base64", Euros, TRUE),
    RemoteFile(200, "base64", AtLimit, TRUE),
    RemoteFile(200, "base64", Empty, TRUE),
    RemoteFile(200, "base64", Empty, FALSE),
    RemoteFile(404, "none", Empty, FALSE),
    RemoteFile(200, "none", Small, TRUE),
    RemoteFile(200, "none", Small, FALSE) }

FillerFiles ==
  { RemoteFile(200, "base64", Small, TRUE),
    RemoteFile(200, "base64", AtLimit, TRUE) }

HeadPaths == {"a.ts", "b.ts"}

FillerPath == "f.ts"

FillerCounts == {0} \cup (MAX_FILES - 1 .. MAX_FILES + MaxOver)

SnippetFiles ==
  { [path |-> "a.ts", content |-> Small],
    [path |-> "b.ts", content |-> Big],
    [path |-> "", content |-> Empty],
    [path |-> "c.ts", content |-> AtLimit],
    [path |-> "d.ts", content |-> OverLimit],
    [path |-> "e.ts", content |-> Euros] }

SnippetFillers ==
  { [path |-> FillerPath, content |-> Small],
    [path |-> FillerPath, content |-> AtLimit] }

NoRemote == [p \in HeadPaths \cup {FillerPath} |-> RemoteFile(404, "none", Empty, FALSE)]

\* The parsed request body.  parses = FALSE: the body is not JSON and
\* req.json() rejects.  A missing files / paths array behaves as an empty
\* one (body.files || []), a missing content as "" (f.content ?? "").
Body(parses, mode, fs, ps) ==
  [parses |-> parses, mode |-> mode, files |-> fs, paths |-> ps,
   owner |-> "o", repo |-> "r", ref |-> "main"]

\* What generateContent answered: nothing yet, a text, or a rejection with
\* the message of the error it threw.
NoAnswer == [kind |-> "none", message |-> <<>>]

NoResponse ==
  [kind |-> "none", status |-> 0, error |-> <<>>, text |-> "",
   truncated |-> FALSE, totalBytes |-> 0, fileCount |-> 0]

AnalyzeIdle ==
  /\ body = Body(TRUE, "none", <<>>, <<>>)
  /\ remote = NoRemote
  /\ pc = "idle"
  /\ files = <<>>
  /\ truncatedAny = FALSE
  /\ total = 0
  /\ bounded = <<>>
  /\ idx = 1
  /\ netLog = <<>>
  /\ inflight = 0
  /\ modelCalls = 0
  /\ modelAnswer = NoAnswer
  /\ response = NoResponse

InitAnalyze ==
  /\ pc = "recv"
  /\ files = <<>>
  /\ truncatedAny = FALSE
  /\ total = 0
  /\ bounded = <<>>
  /\ idx = 1
  /\ netLog = <<>>
  /\ inflight = 0
  /\ modelCalls = 0
  /\ modelAnswer = NoAnswer
  /\ response = NoResponse
  /\ \/ /\ remote = NoRemote
        /\ \/ body = Body(FALSE, "none", <<>>, <<>>)
           \/ body = Body(TRUE, "upload", <<>>, <<>>)
           \/ \E h \in SeqsUpTo(SnippetFiles, MaxHead), n \in FillerCounts,
                 f \in SnippetFillers :
                /\ n = 0 => f = [path |-> FillerPath, content |-> Small]
                /\ body = Body(TRUE, "snippet", h \o Repeat(f, n), <<>>)
     \/ /\ \E a \in RemoteFiles, f \in FillerFiles :
             remote = [p \in HeadPaths \cup {FillerPath} |->
                         IF p = "a.ts" THEN a
                         ELSE IF p = FillerPath THEN f
                         ELSE RemoteFile(200, "base64", Small, TRUE)]
        /\ \E h \in SeqsUpTo(HeadPaths, MaxHead), n \in FillerCounts :
             body = Body(TRUE, "github", <<>>, h \o Repeat(FillerPath, n))

\* The Response a handler returns: Response.json(data) has status 200
\* unless init.status says otherwise.
ErrorResponse(msg) == [NoResponse EXCEPT !.kind = "json", !.status = 400, !.error = msg]

\* catch (e): { error: e?.message || "Failed to analyze" }, status 400
Catch(msg) == ErrorResponse(IF msg = <<>> THEN <<"Failed to analyze">> ELSE msg)

\* const body = await req.json(), outside the try block
ParseBody ==
  /\ pc = "recv"
  /\ IF body.parses
       THEN /\ pc' = "try"
            /\ UNCHANGED response
       ELSE /\ pc' = "done"
            /\ response' = [NoResponse EXCEPT !.kind = "thrown"]
  /\ UNCHANGED <<body, remote, files, truncatedAny, total, bounded, idx,
                 netLog, inflight, modelCalls, modelAnswer, fnVars, listVars>>

\* (body.files || []).slice(0, MAX_FILES)
ConsideredFiles == SubSeq(body.files, 1, Min(Len(body.files), MAX_FILES))

\* (body.paths || []).slice(0, MAX_FILES)
ConsideredPathsAll == body.paths

ConsideredPaths == SubSeq(body.paths, 1, Min(Len(body.paths), MAX_FILES))

\* mode "snippet": truncate each considered file; f.path || "snippet.ts"
SnippetCollect ==
  /\ pc = "try"
  /\ body.mode = "snippet"
  /\ LET cut == [k \in 1..Len(ConsideredFiles) |->
                   maybeTruncateContent(ConsideredFiles[k].content, MAX_FILE_BYTES)]
     IN  /\ files' = [k \in 1..Len(ConsideredFiles) |->
                        [path |-> IF ConsideredFiles[k].path = ""
                                    THEN "snippet.ts"
                                    ELSE ConsideredFiles[k].path,
                         content |-> cut[k].text]]
         /\ truncatedAny' = (\E k \in 1..Len(ConsideredFiles) : cut[k].truncated)
  /\ pc' = "cap"
  /\ UNCHANGED <<body, remote, total, bounded, idx, netLog, inflight,
                 modelCalls, modelAnswer, response, fnVars, listVars>>

\* neither "snippet" nor "github"
UnsupportedMode ==
  /\ pc = "try"
  /\ body.mode \notin {"snippet", "github"}
  /\ response' = ErrorResponse(<<"Unsupported mode">>)
  /\ pc' = "done"
  /\ UNCHANGED <<body, remote, files, truncatedAny, total, bounded, idx,
                 netLog, inflight, modelCalls, modelAnswer, fnVars, listVars>>

\* The rest of one iteration of "for (const p of paths)" once raw is known.
PushFetched(p, raw) ==
  LET cut == maybeTruncateContent(raw, MAX_FILE_BYTES)
  IN  /\ truncatedAny' = (truncatedAny \/ cut.truncated)
      /\ files' = Append(files, [path |-> p, content |-> cut.text])
      /\ idx' = idx + 1
      /\ pc' = "try"
      /\ UNCHANGED <<total, bounded, modelCalls, modelAnswer, response>>

\* A best-effort loop: the failed path is skipped and the loop goes on.
AbortSkipping(msg) ==
  /\ idx' = idx + 1
  /\ pc' = "try"
  /\ UNCHANGED <<files, truncatedAny, total, bounded, modelCalls, modelAnswer,
                 response>>

\* An exception thrown inside the try block: the catch block answers.
Abort(msg) ==
  /\ response' = Catch(msg)
  /\ pc' = "done"
  /\ UNCHANGED <<files, truncatedAny, total, bounded, idx, modelCalls,
                 modelAnswer>>

\* json.content of the contents endpoint: the base64 text of the file; an
\* empty file has content "".
JsonContentTruthy(r) == r.text # <<>>

\* ghGetContent: the request to the contents endpoint is sent, and the
\* loop waits for its answer (await fetch).
ContentsRequest ==
  /\ pc = "try"
  /\ body.mode = "github"
  /\ idx <= Len(ConsideredPaths)
  /\ netLog' = Append(netLog, [endpoint |-> "contents", path |-> ConsideredPaths[idx]])
  /\ inflight' = inflight + 1
  /\ pc' = "awaitContents"
  /\ UNCHANGED <<body, remote, files, truncatedAny, total, bounded, idx,
                 modelCalls, modelAnswer, response, fnVars, listVars>>

\* ghGetContent: the contents endpoint has answered; a non-ok answer throws,
\* base64 content is decoded and returned, anything else sends the request
\* to the raw endpoint.
ContentsAnswer ==
  /\ pc = "awaitContents"
  /\ LET p == ConsideredPaths[idx]
         r == remote[p]
     IN  IF r.status # 200
           THEN /\ Abort(<<"GitHub content error", ToString(r.status), ":", "">>)
                /\ inflight' = inflight - 1
                /\ UNCHANGED netLog
           ELSE IF JsonContentTruthy(r) /\ r.encoding = "base64"
             THEN /\ PushFetched(p, r.text)
                  /\ inflight' = inflight - 1
                  /\ UNCHANGED netLog
             ELSE /\ netLog' = Append(netLog, [endpoint |-> "raw", path |-> p])
                  /\ pc' = "awaitRaw"
                  /\ UNCHANGED <<files, truncatedAny, total, bounded, idx,
                                 inflight, modelCalls, modelAnswer, response>>
  /\ UNCHANGED <<body, remote, fnVars, listVars>>

\* ghGetContent: the raw endpoint has answered
RawAnswer ==
  /\ pc = "awaitRaw"
  /\ LET p == ConsideredPaths[idx]
         r == remote[p]
     IN  IF r.rawOk
           THEN PushFetched(p, r.text)
           ELSE Abort(<<"Failed to fetch raw content for", p>>)
  /\ inflight' = inflight - 1
  /\ UNCHANGED <<body, remote, netLog, fnVars, listVars>>

\* The for loop leaves as soon as it is between two fetches, whatever idx.
FetchLoopExitEarly ==
  /\ pc = "try"
  /\ body.mode = "github"
  /\ pc' = "cap"
  /\ UNCHANGED <<body, remote, files, truncatedAny, total, bounded, idx,
                 netLog, inflight, modelCalls, modelAnswer, response, fnVars,
                 listVars>>

\* the for loop over paths has run out of paths
FetchLoopExit ==
  /\ pc = "try"
  /\ body.mode = "github"
  /\ idx > Len(ConsideredPaths)
  /\ pc' = "cap"
  /\ UNCHANGED <<body, remote, files, truncatedAny, total, bounded, idx,
                 netLog, inflight, modelCalls, modelAnswer, response, fnVars,
                 listVars>>

\* The size cap without its "truncatedAny = true".
ApplyCapNoFlag ==
  /\ pc = "cap"
  /\ LET r == EnforceCap(files, MAX_TOTAL_BYTES)
     IN  /\ total' = r.total
         /\ bounded' = r.bounded
  /\ pc' = "model"
  /\ UNCHANGED <<body, remote, files, truncatedAny, idx, netLog, inflight,
                 modelCalls, modelAnswer, response, fnVars, listVars>>

\* "Enforce global size cap", then header, bundle and prompt
ApplyCap ==
  /\ pc = "cap"
  /\ LET r == EnforceCap(files, MAX_TOTAL_BYTES)
     IN  /\ total' = r.total
         /\ bounded' = r.bounded
         /\ truncatedAny' = (truncatedAny \/ r.hitCap)
  /\ pc' = "model"
  /\ UNCHANGED <<body, remote, files, idx, netLog, inflight, modelCalls,
                 modelAnswer, response, fnVars, listVars>>

ModelFailures == {<<"quota exceeded">>, <<>>}

SuccessResponseAllFiles(text) ==
  [NoResponse EXCEPT !.kind = "json", !.status = 200, !.text = text,
                     !.truncated = truncatedAny, !.totalBytes = total,
                     !.fileCount = Len(files)]

SuccessResponse(text) ==
  [NoResponse EXCEPT !.kind = "json", !.status = 200, !.text = text,
                     !.truncated = truncatedAny, !.totalBytes = total,
                     !.fileCount = Len(bounded)]

\* A model call that is sent again after a rejection.
ModelCallRetrying ==
  /\ pc = "model"
  /\ modelCalls < 2
  /\ modelCalls' = modelCalls + 1
  /\ \/ /\ modelAnswer' = [kind |-> "text", message |-> <<>>]
        /\ response' = SuccessResponse("review")
        /\ pc' = "done"
     \/ \E m \in ModelFailures :
          /\ modelAnswer' = [kind |-> "error", message |-> m]
          /\ UNCHANGED <<pc, response>>
  /\ UNCHANGED <<body, remote, files, truncatedAny, total, bounded, idx,
                 netLog, inflight, fnVars, listVars>>

\* await ai.models.generateContent(...), then the success response; a
\* rejection is caught like any other exception.
ModelCall ==
  /\ pc = "model"
  /\ modelCalls' = modelCalls + 1
  /\ pc' = "done"
  /\ \/ /\ modelAnswer' = [kind |-> "text", message |-> <<>>]
        /\ response' = SuccessResponse("review")
     \/ \E m \in ModelFailures :
          /\ modelAnswer' = [kind |-> "error", message |-> m]
          /\ response' = Catch(m)
  /\ UNCHANGED <<body, remote, files, truncatedAny, total, bounded, idx,
                 netLog, inflight, fnVars, listVars>>

(***************************************************************************)
(* POST /api/github/list-files                                             *)
(***************************************************************************)
P_README == <<"R", "E", "A", "D", "M", "E">>

P_x_png == <<"x", ".", "p", "n", "g">>

P_x_PNG == <<"x", ".", "P", "N", "G">>

P_src == <<"s", "r", "c">>

P_src_a_ts == <<"s", "r", "c", "/", "a", ".", "t", "s">>

P_src_b_Jpg == <<"s", "r", "c", "/", "b", ".", "J", "p", "g">>

P_src_Makefile == <<"s", "r", "c", "/", "M", "k">>

P_srcx_y_ts == <<"s", "r", "c", "x", "/", "y", ".", "t", "s">>

P_v_gz_notes == <<"v", ".", "g", "z", "/", "n">>

P_x_tar_gz == <<"x", ".", "t", ".", "g", "z">>

P_main == <<"m", "a", "i", "n">>

P_dev == <<"d", "e", "v">>

Entry(path, type) == [path |-> path, type |-> type]

TreeEntries ==
  { Entry(P_README, "blob"), Entry(P_x_png, "blob"), Entry(P_x_PNG, "blob"),
    Entry(P_src, "tree"), Entry(P_src_a_ts, "blob"),
    Entry(P_src_b_Jpg, "blob"), Entry(P_src_Makefile, "blob"),
    Entry(P_srcx_y_ts, "blob"), Entry(P_v_gz_notes, "blob"),
    Entry(P_x_tar_gz, "blob"), Entry(P_x_png, "commit") }

Trees == SeqsUpTo(TreeEntries, MaxTree)

GitHubUrl(segs) == Url(TRUE, TRUE, "github.com", <<<<>>>> \o segs)

ListUrls ==
  { Url(FALSE, FALSE, "", <<>>),
    Url(TRUE, FALSE, "", <<>>),
    Url(TRUE, TRUE, "gitlab.com", <<<<>>, <<"x">>, <<"y">>>>),
    Url(TRUE, TRUE, "www.github.com", <<<<>>, <<"o">>, <<"r">>>>),
    GitHubUrl(<<>>),
    GitHubUrl(<<<<"o">>>>),
    GitHubUrl(<<<<"o">>, <<>>>>),
    GitHubUrl(<<<<"o">>, <<"r">>>>),
    GitHubUrl(<<<<"o">>, <<"r">>, S_tree>>),
    GitHubUrl(<<<<"o">>, <<"r">>, S_tree, P_dev>>),
    GitHubUrl(<<<<"o">>, <<"r">>, S_tree, P_dev, P_src>>),
    GitHubUrl(<<<<"o">>, <<"r">>, S_blob, P_dev, P_src, <<>>>>),
    GitHubUrl(<<<<"o">>, <<"r">>, <<"p">>, P_dev, P_src>>) }

\* The request: parses = FALSE when the body is not JSON (req.json()
\* rejects); repoUrl is the string the body carries.
ListRequest(parses, repoUrl) == [parses |-> parses, repoUrl |-> repoUrl]

NoListResponse ==
  [kind |-> "none", status |-> 0, error |-> <<>>, owner |-> <<>>,
   repo |-> <<>>, ref |-> <<>>, rootPath |-> None, files |-> <<>>]

ListIdle ==
  /\ lreq = ListRequest(TRUE, Url(FALSE, FALSE, "", <<>>))
  /\ lpc = "idle"
  /\ parsed = Threw(<<>>)
  /\ ref = <<>>
  /\ tree = <<>>
  /\ lnet = <<>>
  /\ lresponse = NoListResponse

InitList ==
  /\ lreq \in {ListRequest(FALSE, Url(FALSE, FALSE, "", <<>>))}
                \cup {ListRequest(TRUE, u) : u \in ListUrls}
  /\ lpc = "recv"
  /\ parsed = Threw(<<>>)
  /\ ref = <<>>
  /\ tree = <<>>
  /\ lnet = <<>>
  /\ lresponse = NoListResponse

ListError(msg) ==
  [NoListResponse EXCEPT !.kind = "json", !.status = 400, !.error = msg]

\* catch (e): { error: e?.message || "Failed to list files" }, status 400
ListCatch(msg) ==
  ListError(IF msg = <<>> THEN <<"Failed to list files">> ELSE msg)

\* const { repoUrl } = await req.json(), outside the try block, then the
\* check of repoUrl
ListParseBody ==
  /\ lpc = "recv"
  /\ IF ~lreq.parses
       THEN /\ lpc' = "done"
            /\ lresponse' = [NoListResponse EXCEPT !.kind = "thrown"]
       ELSE IF ~lreq.repoUrl.given
         THEN /\ lpc' = "done"
              /\ lresponse' = ListError(<<"repoUrl is required">>)
         ELSE /\ lpc' = "try"
              /\ UNCHANGED lresponse
  /\ UNCHANGED <<lreq, parsed, ref, tree, lnet, fnVars, analyzeVars>>

\* const { owner, repo, ref: refMaybe, path: rootPath } = parseGitHubUrl(repoUrl)
ListParseUrl ==
  /\ lpc = "try"
  /\ LET r == parseGitHubUrl(lreq.repoUrl)
     IN  IF r.threw
           THEN /\ lresponse' = ListCatch(r.message)
                /\ lpc' = "done"
                /\ UNCHANGED parsed
           ELSE /\ parsed' = r
                /\ lpc' = "repoInfo"
                /\ UNCHANGED lresponse
  /\ UNCHANGED <<lreq, ref, tree, lnet, fnVars, analyzeVars>>

GhError(status) == <<"GitHub API error", ToString(status), ":", "">>

\* await gh(`/repos/${owner}/${repo}`); ref = refMaybe || default_branch
ListRepoInfo ==
  /\ lpc = "repoInfo"
  /\ lnet' = Append(lnet, [endpoint |-> "repo", ref |-> <<>>])
  /\ \/ /\ lresponse' = ListCatch(GhError(404))
        /\ lpc' = "done"
        /\ UNCHANGED ref
     \/ \E default_branch \in {P_main} :
          /\ ref' = IF parsed.ref.present /\ parsed.ref.value # <<>>
                      THEN parsed.ref.value
                      ELSE default_branch
          /\ lpc' = "tree"
          /\ UNCHANGED lresponse
  /\ UNCHANGED <<lreq, parsed, tree, fnVars, analyzeVars>>

\* await gh(`.../git/trees/${ref}?recursive=1`), the filters, the response
ListTree ==
  /\ lpc = "tree"
  /\ lnet' = Append(lnet, [endpoint |-> "tree", ref |-> ref])
  /\ lpc' = "done"
  /\ \/ /\ lresponse' = ListCatch(GhError(404))
        /\ UNCHANGED tree
     \/ \E listing \in Trees :
          /\ tree' = listing
          /\ lresponse' =
               [NoListResponse EXCEPT !.kind = "json", !.status = 200,
                  !.owner = parsed.owner, !.repo = parsed.repo, !.ref = ref,
                  !.rootPath = parsed.path,
                  !.files = listedFiles(listing, parsed.path)]
  /\ UNCHANGED <<lreq, parsed, ref, fnVars, analyzeVars>>

(***************************************************************************)
(* Specifications                                                          *)
(***************************************************************************)
InitHelpers == InitFn /\ AnalyzeIdle /\ ListIdle

NextHelpers == CallTruncate \/ CallCap \/ CallParse

\* one helper, called once on inputs drawn from the bounded sets
SpecHelpers == InitHelpers /\ [][NextHelpers]_vars

InitA == InitAnalyze /\ FnIdle /\ ListIdle

NextAnalyze ==
  \/ ParseBody
  \/ SnippetCollect
  \/ UnsupportedMode
  \/ ContentsRequest
  \/ ContentsAnswer
  \/ RawAnswer
  \/ FetchLoopExit
  \/ ApplyCap
  \/ ModelCall

\* one request to POST /api/analyze
SpecAnalyze == InitA /\ [][NextAnalyze]_vars

InitL == InitList /\ FnIdle /\ AnalyzeIdle

NextList == ListParseBody \/ ListParseUrl \/ ListRepoInfo \/ ListTree

\* one request to POST /api/github/list-files
SpecList == InitL /\ [][NextList]_vars

(***************************************************************************)
(* Properties                                                              *)
(***************************************************************************)
\* UTF-8 length of a plain sequence of code units, code point by code point.
RECURSIVE Utf8Length(_)
Utf8Length(us) ==
  IF us = <<>> THEN 0
  ELSE IF Len(us) >= 2 /\ us[1] = HighSurrogate /\ us[2] = LowSurrogate
    THEN 4 + Utf8Length(SubSeq(us, 3, Len(us)))
    ELSE UnitBytes(us[1]) + Utf8Length(Tail(us))

RECURSIVE SumBytes(_)
SumBytes(fs) ==
  IF fs = <<>> THEN 0 ELSE bytes(fs[1].content) + SumBytes(Tail(fs))

Prefix(seq, n) == SubSeq(seq, 1, n)

IsSubstring(m, u) ==
  \E i \in 1..(Len(u) - Len(m) + 1) : SubSeq(u, i, i + Len(m) - 1) = m

CapReturned == fnPc = "ret" /\ fn = "EnforceCap"

\* C1: the bundle the size-cap loop produces is a prefix of the input list,
\* in input order, and it is the longest prefix whose summed UTF-8 byte
\* length is within the cap: a file after the first excluded one is never
\* included, even if it would fit.
C1_LongestPrefix ==
  CapReturned =>
    LET n == Len(out.bounded)
    IN  /\ n <= Len(arg.files)
        /\ out.bounded = Prefix(arg.files, n)
        /\ SumBytes(out.bounded) <= arg.cap
        /\ \A k \in 0..Len(arg.files) :
             SumBytes(Prefix(arg.files, k)) <= arg.cap => k <= n

\* a file is excluded and a later file would still fit under the cap
C1_Witness ==
  /\ CapReturned
  /\ Len(out.bounded) >= 1
  /\ \E k \in (Len(out.bounded) + 2)..Len(arg.files) :
       out.total + bytes(arg.files[k].content) <= arg.cap

Succeeded == response.kind = "json" /\ response.status = 200

\* C2: in every successful analyze response totalBytes is the sum of the
\* UTF-8 byte lengths of the files in the bundle, totalBytes is at most
\* 200,000, and fileCount is the number of files in the bundle.
C2_ResponseTotals ==
  Succeeded =>
    /\ response.totalBytes = SumBytes(bounded)
    /\ response.totalBytes <= 200000
    /\ response.fileCount = Len(bounded)

\* a successful response whose bundle left files out
C2_Witness ==
  /\ Succeeded
  /\ Len(bounded) >= 1
  /\ Len(bounded) < Len(files)

TruncateReturned == fnPc = "ret" /\ fn = "maybeTruncateContent"

\* C3: maybeTruncateContent returns the content unchanged with
\* truncated = false when its UTF-8 length is within the limit, and a text
\* containing the elision marker with truncated = true when it is not.
C3_TruncateContract ==
  TruncateReturned =>
    IF Utf8Length(Units(arg.content)) <= arg.limit
      THEN out.text = arg.content /\ out.truncated = FALSE
      ELSE IsSubstring(Units(marker), Units(out.text)) /\ out.truncated = TRUE

\* both cases: a content at exactly the limit, and one over it
C3_Witness ==
  /\ TruncateReturned
  /\ arg.limit >= 2
  /\ \/ Utf8Length(Units(arg.content)) = arg.limit /\ ~out.truncated
     \/ Utf8Length(Units(arg.content)) > arg.limit /\ out.truncated

ContentsRequests == SelectSeq(netLog, LAMBDA q : q.endpoint = "contents")

\* C4: at most the first 50 paths of a github request are requested from
\* the remote service, in input order, and at most the first 50 files of
\* either mode reach truncation and the bundle: position k of the files
\* collected is position k of the input, for k up to 50 only.
C4_FirstFiftyOnly ==
  /\ Len(ContentsRequests) <= Min(Len(body.paths), 50)
  /\ \A k \in 1..Len(ContentsRequests) :
       ContentsRequests[k].path = body.paths[k]
  /\ \A j \in 1..Len(netLog) :
       netLog[j].endpoint = "raw" =>
         j > 1 /\ netLog[j - 1] = [endpoint |-> "contents", path |-> netLog[j].path]
  /\ Len(files) <= 50
  /\ Len(bounded) <= Len(files)
  /\ bounded = Prefix(files, Len(bounded))
  /\ body.mode = "github" =>
       /\ Len(files) <= Len(body.paths)
       /\ \A k \in 1..Len(files) : files[k].path = body.paths[k]
  /\ body.mode = "snippet" =>
       /\ Len(files) <= Len(body.files)
       /\ \A k \in 1..Len(files) :
            files[k].path \in {body.files[k].path, "snippet.ts"}

\* a github request with more than 50 paths has run to its response
C4_Witness ==
  /\ body.mode = "github"
  /\ Len(body.paths) > 50
  /\ Succeeded
  /\ Len(ContentsRequests) = 50
  /\ Len(files) = 50

ParseReturned == fnPc = "ret" /\ fn = "parseGitHubUrl"

RECURSIVE NonEmpty(_)
NonEmpty(pieces) ==
  IF pieces = <<>> THEN <<>>
  ELSE IF Head(pieces) = <<>> THEN NonEmpty(Tail(pieces))
  ELSE <<Head(pieces)>> \o NonEmpty(Tail(pieces))

RECURSIVE SlashJoined(_)
SlashJoined(segs) ==
  IF segs = <<>> THEN <<>>
  ELSE IF Len(segs) = 1 THEN segs[1]
  ELSE segs[1] \o <<"/">> \o SlashJoined(Tail(segs))

ExampleTreeUrl ==
  GitHubUrl(<<<<"o">>, <<"o">>, S_tree, <<"a">>, <<"a">>, <<"o">>>>)

\* C5: for a github.com URL with at least two non-empty path segments,
\* owner and repo are the first two segments; ref and path are absent
\* unless the third segment is "tree" or "blob"; then ref is the fourth
\* segment and path is the remaining segments joined by "/"
\* (/o/o/tree/a/a/o gives ref "a" and path "a/o").
C5_ParseSegments ==
  (/\ ParseReturned
   /\ arg.wellFormed
   /\ arg.hostname = "github.com"
   /\ Len(NonEmpty(arg.pieces)) >= 2) =>
    LET segs == NonEmpty(arg.pieces)
    IN  /\ ~out.threw
        /\ out.owner = segs[1]
        /\ out.repo = segs[2]
        /\ IF Len(segs) >= 3 /\ segs[3] \in {S_tree, S_blob}
             THEN /\ out.ref = IF Len(segs) >= 4 THEN Some(segs[4]) ELSE None
                  /\ out.path.present
                  /\ out.path.value = SlashJoined(SubSeq(segs, 5, Len(segs)))
             ELSE out.ref = None /\ out.path = None
        /\ arg = ExampleTreeUrl =>
             out.ref = Some(<<"a">>) /\ out.path = Some(<<"a", "/", "o">>)

\* the example URL has been parsed
C5_Witness ==
  /\ ParseReturned
  /\ arg = ExampleTreeUrl
  /\ out.path = Some(<<"a", "/", "o">>)

BadRepoUrl(u) ==
  \/ ~u.wellFormed
  \/ u.hostname # "github.com"
  \/ Len(NonEmpty(u.pieces)) < 2

ForeignHost(u) == u.wellFormed /\ u.hostname # "github.com"

Names(msg, word) == \E i \in 1..Len(msg) : msg[i] = word

ListFailed ==
  /\ lresponse.kind = "json"
  /\ lresponse.status >= 400
  /\ lresponse.error # <<>>

\* C6 as stated: a list-files request whose repoUrl is not a well-formed
\* URL, has a host other than github.com or has fewer than two path
\* segments ends in an error response, with no request to the remote
\* service, and for a foreign host the error message names that host.
C6_Original ==
  (lreq.parses /\ BadRepoUrl(lreq.repoUrl)) =>
    /\ lnet = <<>>
    /\ lpc = "done" =>
         /\ ListFailed
         /\ ForeignHost(lreq.repoUrl) =>
              Names(lresponse.error, lreq.repoUrl.hostname)

\* C6 amended: such a request ends in an error response (status 400, a
\* non-empty message) with no request to the remote service; for a foreign
\* host the message is "Only github.com links are supported", which names
\* the one supported host and not the host of the URL.
C6_Amended ==
  (lreq.parses /\ BadRepoUrl(lreq.repoUrl)) =>
    /\ lnet = <<>>
    /\ lpc = "done" =>
         /\ ListFailed
         /\ ForeignHost(lreq.repoUrl) =>
              lresponse.error = <<"Only", "github.com", "links", "are", "supported">>

\* the gitlab.com request has been answered
C6_Witness ==
  /\ lreq.parses
  /\ lreq.repoUrl.wellFormed
  /\ lreq.repoUrl.hostname = "gitlab.com"
  /\ lpc = "done"
  /\ ListFailed

SameIgnoringCase(a, b) ==
  /\ Len(a) = Len(b)
  /\ \A i \in 1..Len(a) :
       \/ a[i] = b[i]
       \/ a[i] \in DOMAIN LowerTable /\ LowerTable[a[i]] = b[i]

\* the extension of p (from its last "." on) is in the denylist, whatever
\* its case
Denylisted(p) ==
  \E k \in 1..Len(p) :
    /\ p[k] = "."
    /\ \A j \in (k + 1)..Len(p) : p[j] # "."
    /\ \E e \in skipExt : SameIgnoringCase(SubSeq(p, k, Len(p)), e)

HasDot(p) == \E k \in 1..Len(p) : p[k] = "."

\* the blob paths of the listing under the URL's path, in listing order
Candidates ==
  LET root == IF parsed.path.present /\ parsed.path.value # <<>>
                THEN parsed.path.value \o <<"/">>
                ELSE <<>>
      cand == SelectSeq(tree, LAMBDA t :
                /\ t.type = "blob"
                /\ Len(t.path) >= Len(root)
                /\ SubSeq(t.path, 1, Len(root)) = root)
  IN  [i \in 1..Len(cand) |-> cand[i].path]

ListSucceeded == lresponse.kind = "json" /\ lresponse.status = 200

\* C7: the files list-files returns hold no path whose extension is on the
\* denylist in any case (x.png and x.PNG are both left out), every
\* candidate path without a "." is returned, and the paths returned are in
\* the order of the tree listing.
C7_ExtensionFilter ==
  ListSucceeded =>
    /\ \A i \in 1..Len(lresponse.files) : ~Denylisted(lresponse.files[i])
    /\ \A i \in 1..Len(Candidates) :
         ~HasDot(Candidates[i]) =>
           \E j \in 1..Len(lresponse.files) : lresponse.files[j] = Candidates[i]
    /\ lresponse.files = SelectSeq(Candidates, LAMBDA p : ~Denylisted(p))

\* a listing with x.PNG from which two different paths are returned
C7_Witness ==
  /\ ListSucceeded
  /\ \E i \in 1..Len(tree) : tree[i] = Entry(P_x_PNG, "blob")
  /\ Len(lresponse.files) = 2
  /\ lresponse.files[1] # lresponse.files[2]
  /\ ~HasDot(lresponse.files[2])

ScenarioA ==
  Body(TRUE, "snippet",
       <<[path |-> "a.ts", content |-> <<R("x", 10)>>],
         [path |-> "b.ts", content |-> <<R("y", 300000)>>]>>,
       <<>>)

ScenarioATruncated ==
  <<R("y", 20000)>> \o marker \o <<R("y", 20000)>>

\* C8: scenario A (a.ts of 10 one-byte characters, b.ts of 300,000): b.ts
\* is truncated before the size cap is applied, both files are in the
\* bundle in order, and the response has fileCount 2 and truncated true.
C8_ScenarioA ==
  body = ScenarioA =>
    /\ pc \in {"cap", "model", "done"} =>
         /\ files = <<[path |-> "a.ts", content |-> <<R("x", 10)>>],
                      [path |-> "b.ts", content |-> ScenarioATruncated]>>
         /\ truncatedAny
    /\ pc \in {"model", "done"} =>
         /\ bounded = files
         /\ total = 10 + 40051
    /\ Succeeded =>
         /\ response.fileCount = 2
         /\ response.truncated = TRUE
         /\ response.totalBytes = 40061

\* scenario A has been answered
C8_Witness == body = ScenarioA /\ Succeeded

\* C9: every failure of a handler ends in a structured error response with
\* a non-success status; none leaves the handler as a thrown exception.
C9_NoEscape ==
  pc = "done" =>
    /\ response.kind = "json"
    /\ response.status # 200 =>
         response.status >= 400 /\ response.error # <<>>

FirstUnits(us, k) == SubSeq(us, 1, Min(k, Len(us)))

LastUnits(us, k) == SubSeq(us, Len(us) - Min(k, Len(us)) + 1, Len(us))

\* C10: for a content over the limit and any limit >= 0, the output of
\* maybeTruncateContent is the first floor(limit/2) characters, the marker,
\* and the last floor(limit/2) characters.
C10_HeadMarkerTail ==
  (TruncateReturned /\ arg.limit >= 0
     /\ Utf8Length(Units(arg.content)) > arg.limit) =>
    LET us == Units(arg.content)
        h  == arg.limit \div 2
    IN  Units(out.text) = FirstUnits(us, h) \o Units(marker) \o LastUnits(us, h)


\* What the remote side answered to a logged request: a request to the
\* contents endpoint fails on a non-200 status, a request to the raw
\* endpoint fails when the raw response is not ok.
RequestFailed(q) ==
  \/ q.endpoint = "contents" /\ remote[q.path].status # 200
  \/ q.endpoint = "raw" /\ ~remote[q.path].rawOk

FailedRequests == {j \in 1..Len(netLog) : RequestFailed(netLog[j])}

AnswerPending == pc \in {"awaitContents", "awaitRaw"}

\* The failing request has been answered.
FetchFailed ==
  /\ FailedRequests # {}
  /\ ~(AnswerPending /\ Len(netLog) \in FailedRequests)

IsErrorResponse ==
  /\ response.kind = "json"
  /\ response.status = 400
  /\ response.error # <<>>

\* C11: in github mode, once the fetch of a considered path has failed, the
\* request has ended with an error response, no bundle has been assembled
\* from the paths fetched before, the model has not been called, and the
\* failing request is the last one sent.
C11_FetchFailureAborts ==
  FetchFailed =>
    /\ body.mode = "github"
    /\ pc = "done"
    /\ IsErrorResponse
    /\ bounded = <<>>
    /\ total = 0
    /\ modelCalls = 0
    /\ modelAnswer = NoAnswer
    /\ inflight = 0
    /\ FailedRequests = {Len(netLog)}

\* A path was fetched, the next one failed, and further paths were waiting.
C11_Witness ==
  /\ FetchFailed
  /\ Len(files) >= 1
  /\ idx < Len(ConsideredPaths)


\* The contents the request is about, before any limit is applied: the
\* contents sent in snippet mode, the remote texts of the paths in github
\* mode; only the first MAX_FILES inputs are considered.
ConsideredCount ==
  IF body.mode = "snippet" THEN Min(Len(body.files), MAX_FILES)
  ELSE Min(Len(body.paths), MAX_FILES)

OriginalContent(k) ==
  IF body.mode = "snippet" THEN body.files[k].content
  ELSE remote[body.paths[k]].text

OverFileLimit == {k \in 1..ConsideredCount : bytes(OriginalContent(k)) > MAX_FILE_BYTES}

ExcludedByCeiling == Len(bounded) < ConsideredCount

\* C12: the truncated flag of a successful analyze response is true exactly
\* when a considered file was over the per-file limit or a considered file
\* was left out by the aggregate ceiling.
C12_TruncatedFlag ==
  Succeeded => (response.truncated <=> (OverFileLimit # {} \/ ExcludedByCeiling))

\* A success whose flag is set by the ceiling alone: no file was over the
\* per-file limit, yet not all of them fitted.
C12_Witness ==
  /\ Succeeded
  /\ response.truncated
  /\ OverFileLimit = {}
  /\ ExcludedByCeiling

\* Successes of the other two kinds: nothing truncated, and a file cut by
\* the per-file limit while all files fitted.
C12_WitnessFalse ==
  /\ Succeeded
  /\ ~response.truncated
  /\ ConsideredCount >= 2

C12_WitnessPerFile ==
  /\ Succeeded
  /\ response.truncated
  /\ OverFileLimit # {}
  /\ ~ExcludedByCeiling


\* The contents endpoint answered with base64-encoded content; the content
\* of an empty file is the empty base64 text.
ReturnedBase64(path) ==
  /\ remote[path].status = 200
  /\ remote[path].encoding = "base64"

RawRequests == {j \in 1..Len(netLog) : netLog[j].endpoint = "raw"}

\* C13: a request to the raw endpoint is sent only for a path whose
\* contents request succeeded without base64 content; a path answered with
\* base64 content, an empty file included, is fetched with the contents
\* request alone and yields the decoded text; and a failed raw request ends
\* with an error that names the path.
C13_RawFallbackOnlyWithoutBase64 ==
  body.mode = "github" =>
  /\ \A j \in RawRequests :
       /\ remote[netLog[j].path].status = 200
       /\ ~ReturnedBase64(netLog[j].path)
  /\ \A k \in 1..Len(files) :
       ReturnedBase64(files[k].path) =>
         files[k].content =
           maybeTruncateContent(remote[files[k].path].text, MAX_FILE_BYTES).text
  /\ \A j \in RawRequests :
       (~remote[netLog[j].path].rawOk /\ pc = "done") =>
         /\ IsErrorResponse
         /\ \E t \in 1..Len(response.error) : response.error[t] = netLog[j].path


\* The parsed reference carries a ref: the URL had a fourth path segment
\* after "tree" or "blob".
UrlHasRef == parsed.ref.present /\ parsed.ref.value # <<>>

MetadataRequests == {j \in 1..Len(lnet) : lnet[j].endpoint = "repo"}

TreeRequests == {j \in 1..Len(lnet) : lnet[j].endpoint = "tree"}

UrlParsed == lpc \in {"repoInfo", "tree", "done"} /\ ~parsed.threw

\* C14: repository metadata is requested only when the parsed reference has
\* no ref, and the tree is then requested at the default branch; when the
\* URL encodes a ref, no metadata request is made and the tree is requested
\* at that ref.
C14_MetadataOnlyWithoutRef ==
  UrlParsed =>
    /\ UrlHasRef => MetadataRequests = {}
    /\ \A j \in TreeRequests :
         lnet[j].ref = (IF UrlHasRef THEN parsed.ref.value ELSE P_main)
    /\ (UrlHasRef /\ lpc = "done") => TreeRequests # {}


\* Budgeting, the size cap loop, has started or is about to: the fetch loop
\* is behind.
PastFetchLoop == pc \in {"cap", "model"} \/ modelCalls > 0

\* Budgeting has run: bounded and total are what the cap loop makes of the
\* files collected.
BudgetingFinished ==
  /\ bounded = Prefix(files, Len(bounded))
  /\ total = SumBytes(bounded)
  /\ total <= MAX_TOTAL_BYTES
  /\ Len(bounded) < Len(files) =>
       total + bytes(files[Len(bounded) + 1].content) > MAX_TOTAL_BYTES

\* C15: in github mode at most one fetch is outstanding at any time, the
\* request for path k+1 is sent only when path k has been fetched and
\* collected, every considered path has been fetched when the fetch loop is
\* behind, and the model is called only when budgeting has run.
C15_SequentialFetches ==
  body.mode = "github" =>
    /\ inflight <= 1
    /\ inflight = 1 <=> AnswerPending
    /\ Len(ContentsRequests) <= Len(files) + 1
    /\ Len(ContentsRequests) = Len(files) + 1 => (AnswerPending \/ FetchFailed)
    /\ \A k \in 1..Len(ContentsRequests) :
         ContentsRequests[k].path = body.paths[k]
    /\ PastFetchLoop =>
         /\ inflight = 0
         /\ Len(files) = ConsideredCount
         /\ Len(ContentsRequests) = ConsideredCount
    /\ modelCalls > 0 => (pc = "done" /\ BudgetingFinished)
    /\ pc \in {"try", "awaitContents", "awaitRaw", "cap"} =>
         (bounded = <<>> /\ total = 0 /\ modelCalls = 0)

\* Three paths fetched in turn, the second through the raw fallback, then
\* budgeting, then the model call.
C15_Witness ==
  /\ body.mode = "github"
  /\ modelCalls = 1
  /\ Len(files) >= 3
  /\ RawRequests # {}
  /\ Len(bounded) >= 1


ModelRejected == modelAnswer.kind = "error"

\* C16: the model is called at most once per request; a successful response
\* comes after exactly one call, which was answered with a text; a rejected
\* call ends the request, without a second call, in an error response whose
\* message is the message of the rejection (the fixed text "Failed to
\* analyze" when the rejection has none); and a request with an unsupported
\* mode ends in an error response with no request sent out and no model call.
C16_AtMostOneModelCall ==
  /\ modelCalls <= 1
  /\ Succeeded => (modelCalls = 1 /\ modelAnswer.kind = "text")
  /\ modelCalls = 1 => (pc = "done" /\ modelAnswer.kind \in {"text", "error"})
  /\ ModelRejected =>
       /\ modelCalls = 1
       /\ pc = "done"
       /\ IsErrorResponse
       /\ response.error =
            (IF modelAnswer.message # <<>> THEN modelAnswer.message
             ELSE <<"Failed to analyze">>)
  /\ (body.parses /\ body.mode \notin {"snippet", "github"} /\ pc = "done") =>
       /\ IsErrorResponse
       /\ netLog = <<>>
       /\ inflight = 0
       /\ modelCalls = 0

\* The one model call of a request was rejected with a message, and the
\* request ended.
C16_Witness ==
  /\ ModelRejected
  /\ modelAnswer.message # <<>>
  /\ pc = "done"
  /\ Len(bounded) >= 1

C16_WitnessUnsupported ==
  /\ body.parses
  /\ body.mode \notin {"snippet", "github"}
  /\ pc = "done"

====
